---- MODULE Spec2Model ----
(***************************************************************************)
(* Model of the email forwarder (src/lambda/forwarder.ts), the forwarding  *)
(* mapping built by the stack (src/lib/email-forwarding-stack.ts) and the  *)
(* SMTP credentials custom resource (src/lambda/smtp-credentials.ts).      *)
(*                                                                         *)
(* Text is a sequence of tokens.  A token stands for a run of one or more  *)
(* characters: the tokens "CR", "LF", "SP", "TAB" are the single white     *)
(* space characters, "<", ">" and "DQ" (the double quote) are single       *)
(* characters, a token ending in ":" is a header name with its colon       *)
(* ("From:", "FROM:", ...) and every other token is a run of ordinary      *)
(* characters (no white space, no quote, no angle bracket, no colon).      *)
(***************************************************************************)
EXTENDS Integers, Sequences, FiniteSets, TLC

VARIABLES raw, forwardFrom, DOMAIN_ENV, out, pc,
          rules, FORWARD_MAPPING, event, recIdx, rcpIdx, rawEmail, ops, status,
          secrets, smHistory, smCalls, smResult, derived

vars == <<raw, forwardFrom, DOMAIN_ENV, out, pc,
          rules, FORWARD_MAPPING, event, recIdx, rcpIdx, rawEmail, ops, status,
          secrets, smHistory, smCalls, smResult, derived>>

rewriterVars == <<raw, forwardFrom, out, pc>>
dispatcherVars == <<rules, FORWARD_MAPPING, event, recIdx, rcpIdx, rawEmail, ops, status>>
secretVars == <<secrets, smHistory, smCalls, smResult>>
deriverVars == <<derived>>

(***************************************************************************)
(* Bounds of the model.                                                    *)
(***************************************************************************)
MaxLines == 3
MaxRecords == 2
MaxRecipients == 2
MaxRequests == 2
MaxDerivations == 3

(***************************************************************************)
(* JavaScript string primitives on token sequences.                        *)
(***************************************************************************)
CRLF == <<"CR", "LF">>
LFOnly == <<"LF">>

\* the characters matched by \s and removed by String.prototype.trim
WhiteSpace == {"SP", "TAB", "CR", "LF"}

MinOf(S) == CHOOSE x \in S : \A y \in S : x <= y

\* String.prototype.indexOf: 0-based index of the first occurrence, or -1
IndexOf(s, pat) ==
    LET hits == {i \in 0..(Len(s) - Len(pat)) : SubSeq(s, i + 1, i + Len(pat)) = pat}
    IN  IF hits = {} THEN -1 ELSE MinOf(hits)

\* String.prototype.substring(a, b) with 0-based, end-exclusive indices
Substring(s, a, b) == SubSeq(s, a + 1, b)

\* String.prototype.toLowerCase on one token
ToLowerCase(t) ==
    CASE t \in {"From:", "FROM:"} -> "from:"
      [] t \in {"Reply-To:", "REPLY-TO:"} -> "reply-to:"
      [] t \in {"DKIM-Signature:", "dkim-signature:"} -> "dkim-signature:"
      [] t \in {"Return-Path:", "RETURN-PATH:"} -> "return-path:"
      [] t = "To:" -> "to:"
      [] t \in {"Hello@D.com", "HELLO@D.COM"} -> "hello@d.com"
      [] t = "Info@D.com" -> "info@d.com"
      [] OTHER -> t

RECURSIVE Split(_, _)
\* String.prototype.split(separator)
Split(s, sep) ==
    LET i == IndexOf(s, sep)
    IN  IF i = -1 THEN <<s>>
        ELSE <<Substring(s, 0, i)>> \o Split(Substring(s, i + Len(sep), Len(s)), sep)

RECURSIVE Join(_, _)
\* Array.prototype.join(separator)
Join(ls, sep) ==
    IF ls = <<>> THEN <<>>
    ELSE IF Len(ls) = 1 THEN ls[1]
    ELSE ls[1] \o sep \o Join(Tail(ls), sep)

RECURSIVE TrimStart(_)
TrimStart(s) ==
    IF s # <<>> /\ s[1] \in WhiteSpace THEN TrimStart(Tail(s)) ELSE s

RECURSIVE TrimEnd(_)
TrimEnd(s) ==
    IF s # <<>> /\ s[Len(s)] \in WhiteSpace THEN TrimEnd(SubSeq(s, 1, Len(s) - 1)) ELSE s

\* String.prototype.trim
Trim(s) == TrimEnd(TrimStart(s))

(***************************************************************************)
(* The regular expressions of forwarder.ts.                                *)
(***************************************************************************)
\* line.match(/^<name>:\s/i): the name, the colon and one white space character
MatchHeader(line, name) ==
    /\ Len(line) >= 2
    /\ ToLowerCase(line[1]) = name
    /\ line[2] \in WhiteSpace

\* line.match(/^\s/)
MatchLeadingSpace(line) == line # <<>> /\ line[1] \in WhiteSpace

\* line.replace(/^From:\s*/i, '')
StripFromPrefix(line) ==
    IF line # <<>> /\ ToLowerCase(line[1]) = "from:" THEN TrimStart(Tail(line)) ELSE line

\* fromValue.match(/<([^>]+)>/) ... return match[1], else fromValue.trim()
extractEmail(fromValue) ==
    LET n == Len(fromValue)
        closeOf(i) == {j \in (i + 1)..n : fromValue[j] = ">"}
        opens == {i \in 1..n : /\ fromValue[i] = "<"
                               /\ closeOf(i) # {}
                               /\ MinOf(closeOf(i)) >= i + 2}
    IN  IF opens = {} THEN Trim(fromValue)
        ELSE LET i == MinOf(opens)
             IN  SubSeq(fromValue, i + 1, MinOf(closeOf(i)) - 1)

\* fromValue.match(/^"?([^"<]+)"?\s*</) ... return match[1].trim(), else ''
extractName(fromValue) ==
    LET n == Len(fromValue)
        p == IF n >= 1 /\ fromValue[1] = "DQ" THEN 2 ELSE 1
        stops == {k \in p..n : fromValue[k] \in {"DQ", "<"}}
        stop == IF stops = {} THEN n + 1 ELSE MinOf(stops)
        run == SubSeq(fromValue, p, stop - 1)
        rest == TrimStart(SubSeq(fromValue, stop + 1, n))
        matched == /\ run # <<>>
                   /\ stop <= n
                   /\ \/ fromValue[stop] = "<"
                      \/ fromValue[stop] = "DQ" /\ rest # <<>> /\ rest[1] = "<"
    IN  IF matched THEN Trim(run) ELSE <<>>

(***************************************************************************)
(* rewriteWithSplit and rewriteEmail.                                      *)
(***************************************************************************)
SKIP == <<"__SKIP__">>

RECURSIVE FirstPassFrom(_, _)
\* first pass: originalFrom is assigned at every matching line
FirstPassFrom(lines, originalFrom) ==
    IF lines = <<>> THEN originalFrom
    ELSE FirstPassFrom(Tail(lines),
            IF MatchHeader(lines[1], "from:") THEN Trim(StripFromPrefix(lines[1]))
            ELSE originalFrom)

FirstPassHasReplyTo(lines) == \E k \in 1..Len(lines) : MatchHeader(lines[k], "reply-to:")

\* `From: "${displayName}" <${forwardFrom}>`
SynthFrom(originalName, originalEmail, domain, fwdFrom) ==
    LET displayName == (IF originalName # <<>> THEN originalName ELSE originalEmail)
                          \o <<"SP", "via", "SP", domain>>
    IN  <<"From:", "SP", "DQ">> \o displayName \o <<"DQ", "SP", "<", fwdFrom, ">">>

\* `Reply-To: ${originalFrom}`
SynthReplyTo(originalFrom) == <<"Reply-To:", "SP">> \o originalFrom

RECURSIVE SecondPass(_, _, _, _, _, _)
\* second pass: one iteration of the loop per line, newLines is the accumulator
SecondPass(lines, newLines, originalFrom, hasReplyTo, domain, fwdFrom) ==
    IF lines = <<>> THEN newLines
    ELSE
      LET line == lines[1]
          originalEmail == extractEmail(originalFrom)
          originalName == extractName(originalFrom)
          next ==
            IF MatchHeader(line, "dkim-signature:") THEN newLines
            ELSE IF /\ Len(newLines) > 0
                    /\ newLines[Len(newLines)] = SKIP
                    /\ MatchLeadingSpace(line) THEN newLines
            ELSE IF MatchHeader(line, "from:") THEN
                   newLines \o <<SynthFrom(originalName, originalEmail, domain, fwdFrom)>>
                     \o (IF ~hasReplyTo /\ originalEmail # <<>>
                         THEN <<SynthReplyTo(originalFrom)>> ELSE <<>>)
            ELSE IF MatchHeader(line, "return-path:") THEN newLines
            ELSE Append(newLines, line)
      IN  SecondPass(Tail(lines), next, originalFrom, hasReplyTo, domain, fwdFrom)

\* newLines.filter(l => l !== '__SKIP__')
FilterSkip(ls) == SelectSeq(ls, LAMBDA l : l # SKIP)

\* rewriteWithSplit taking the body after the separator instead of from it
rewriteWithSplit_BodyAfterSeparator(rawMsg, splitIndex, separator, fwdFrom, domain) ==
    LET headerSection == Substring(rawMsg, 0, splitIndex)
        body == Substring(rawMsg, splitIndex + Len(separator), Len(rawMsg))
        lineBreak == IF separator = CRLF \o CRLF THEN CRLF ELSE LFOnly
        lines == Split(headerSection, lineBreak)
        originalFrom == FirstPassFrom(lines, <<>>)
        hasReplyTo == FirstPassHasReplyTo(lines)
        newLines == SecondPass(lines, <<>>, originalFrom, hasReplyTo, domain, fwdFrom)
    IN  Join(FilterSkip(newLines), lineBreak) \o lineBreak \o body

rewriteWithSplit(rawMsg, splitIndex, separator, fwdFrom, domain) ==
    LET headerSection == Substring(rawMsg, 0, splitIndex)
        body == Substring(rawMsg, splitIndex, Len(rawMsg))
        lineBreak == IF separator = CRLF \o CRLF THEN CRLF ELSE LFOnly
        lines == Split(headerSection, lineBreak)
        originalFrom == FirstPassFrom(lines, <<>>)
        hasReplyTo == FirstPassHasReplyTo(lines)
        newLines == SecondPass(lines, <<>>, originalFrom, hasReplyTo, domain, fwdFrom)
    IN  Join(FilterSkip(newLines), lineBreak) \o body

\* rewriteEmail without the pass-through: with no separator the whole message
\* is taken as the header section
rewriteEmail_NoPassThrough(rawMsg, fwdFrom, domain) ==
    LET headerEndIndex == IndexOf(rawMsg, CRLF \o CRLF)
        altIndex == IndexOf(rawMsg, LFOnly \o LFOnly)
    IN  IF headerEndIndex = -1 THEN
          IF altIndex = -1
          THEN rewriteWithSplit(rawMsg, Len(rawMsg), LFOnly \o LFOnly, fwdFrom, domain)
          ELSE rewriteWithSplit(rawMsg, altIndex, LFOnly \o LFOnly, fwdFrom, domain)
        ELSE rewriteWithSplit(rawMsg, headerEndIndex, CRLF \o CRLF, fwdFrom, domain)

rewriteEmail(rawMsg, fwdFrom, domain) ==
    LET headerEndIndex == IndexOf(rawMsg, CRLF \o CRLF)
        altIndex == IndexOf(rawMsg, LFOnly \o LFOnly)
    IN  IF headerEndIndex = -1 THEN
          IF altIndex = -1 THEN rawMsg
          ELSE rewriteWithSplit(rawMsg, altIndex, LFOnly \o LFOnly, fwdFrom, domain)
        ELSE rewriteWithSplit(rawMsg, headerEndIndex, CRLF \o CRLF, fwdFrom, domain)


(***************************************************************************)
(* Inputs of the rewriter: header lines joined by a line break, then a     *)
(* tail (a separator and a body, or text with no separator).               *)
(***************************************************************************)
LineSet ==
    { <<"From:", "SP", "DQ", "Al", "DQ", "SP", "<", "a@x", ">">>,
      <<"FROM:", "SP", "b@y">>,
      <<"From:", "SP">>,
      <<"Reply-To:", "SP", "c@z">>,
      <<"REPLY-TO:", "<", "c@z", ">">>,
      <<"DKIM-Signature:", "SP", "sig">>,
      <<"TAB", "cont">>,
      <<"Return-Path:", "SP", "<", "r@x", ">">>,
      <<"To:", "SP", "h@d">>,
      <<"CR">> }

BodySet == { <<"hi">>, <<"From:", "SP", "e@v", "LF", "LF", "CR", "LF", "CR", "LF", "hi">> }

LineSeqsOf(max) == UNION {[1..n -> LineSet] : n \in 0..max}

TailsOf(lb) == {lb \o lb \o b : b \in BodySet} \cup {lb \o <<"hi">>, <<>>}

LineBreaks == {CRLF, LFOnly}

RawOf(lb) == {Join(ls, lb) \o t : ls \in LineSeqsOf(MaxLines), t \in TailsOf(lb)}

\* (forwardFrom, DOMAIN) pairs
RewriterConfigs == { <<"hello@d.com", "d.com">>, <<"info@d.com", "e.org">> }

InitRewriter ==
    /\ \E lb \in LineBreaks : raw \in RawOf(lb)
    /\ \E c \in RewriterConfigs : forwardFrom = c[1] /\ DOMAIN_ENV = c[2]
    /\ out = <<>>
    /\ pc = "ready"

\* one call rewriteEmail(rawEmail, recipientLower, destination); DOMAIN is read
\* from the environment
Rewrite ==
    /\ pc = "ready"
    /\ out' = rewriteEmail(raw, forwardFrom, DOMAIN_ENV)
    /\ pc' = "done"
    /\ UNCHANGED <<raw, forwardFrom, DOMAIN_ENV>>



(***************************************************************************)
(* The forwarding mapping: built by the stack from the configured rules,   *)
(* passed to the Lambda as JSON and parsed there.                          *)
(***************************************************************************)
RECURSIVE BuildForwardMapping(_, _)
\* for (const rule of rules) forwardMapping[rule.from] = rule.to
BuildForwardMapping(rs, m) ==
    IF rs = <<>> THEN m
    ELSE BuildForwardMapping(Tail(rs),
            [k \in (DOMAIN m) \cup {rs[1].from} |->
                IF k = rs[1].from THEN rs[1].to ELSE m[k]])

UNDEFINED == "<undefined>"

\* FORWARD_MAPPING[recipientLower]
Lookup(mapping, key) == IF key \in DOMAIN mapping THEN mapping[key] ELSE UNDEFINED

\* !destination
Falsy(v) == v \in {UNDEFINED, ""}

\* recipient.toLowerCase() and FORWARD_MAPPING[recipientLower]
Resolve(mapping, recipient) == Lookup(mapping, ToLowerCase(recipient))

(***************************************************************************)
(* The blob store and the byte/string conversions of the handler.  The     *)
(* byte "xFF" is no valid UTF-8: transformToString decodes it to U+FFFD,   *)
(* which Buffer.from encodes as three bytes.                               *)
(***************************************************************************)
RECURSIVE DecodeBytes(_)
DecodeBytes(s) ==
    IF s = <<>> THEN <<>>
    ELSE <<IF s[1] = "xFF" THEN "U+FFFD" ELSE s[1]>> \o DecodeBytes(Tail(s))

RECURSIVE EncodeChars(_)
EncodeChars(s) ==
    IF s = <<>> THEN <<>>
    ELSE (IF s[1] = "U+FFFD" THEN <<"xEF", "xBF", "xBD">> ELSE <<s[1]>>) \o EncodeChars(Tail(s))

\* s3Response.Body.transformToString()
transformToString(bytes) == DecodeBytes(bytes)

\* Buffer.from(rewritten)
BufferFrom(str) == EncodeChars(str)

BUCKET == "emails"

\* `incoming/${messageId}`
KeyOf(messageId) == <<"incoming/", messageId>>

\* the objects SES stored for the messages of the event
StoredObject(messageId) ==
    CASE messageId = "m1" ->
           <<"From:", "SP", "Al", "SP", "<", "a@x", ">", "CR", "LF",
             "DKIM-Signature:", "SP", "sig", "CR", "LF",
             "To:", "SP", "h@d", "CR", "LF", "CR", "LF", "hi", "xFF">>
      [] messageId = "m2" ->
           <<"Return-Path:", "SP", "r@x", "LF", "To:", "SP", "h@d", "LF", "LF", "hi">>
      [] OTHER -> <<"From:", "SP", "b@y", "SP", "hi">>

\* record k of an event carries message id m<k>
MessageIdOf(k) == CASE k = 1 -> "m1" [] k = 2 -> "m2" [] OTHER -> "m3"

(***************************************************************************)
(* The handler of forwarder.ts: one step per await and per loop iteration. *)
(* ops is the sequence of calls made to S3 and SES.                        *)
(***************************************************************************)
GetOp(key, ok) ==
    [op |-> "GetObject", bucket |-> BUCKET, key |-> key,
     source |-> "", destinations |-> <<>>, data |-> <<>>, ok |-> ok]

SendOp(source, destination, data, ok) ==
    [op |-> "SendRawEmail", bucket |-> "", key |-> <<>>,
     source |-> source, destinations |-> <<destination>>, data |-> data, ok |-> ok]

\* s3.send(new GetObjectCommand(...)) and Body.transformToString()
FetchRecord ==
    /\ status = "fetch"
    /\ recIdx <= Len(event)
    /\ \E ok \in BOOLEAN :
         /\ ops' = Append(ops, GetOp(KeyOf(event[recIdx].messageId), ok))
         /\ IF ok
            THEN /\ rawEmail' = transformToString(StoredObject(event[recIdx].messageId))
                 /\ rcpIdx' = 1
                 /\ status' = "recipients"
            ELSE /\ status' = "failed"
                 /\ UNCHANGED <<rawEmail, rcpIdx>>
    /\ UNCHANGED <<rules, FORWARD_MAPPING, event, recIdx, DOMAIN_ENV>>

\* one iteration of the recipients loop whose destination is falsy: continue
SkipRecipient ==
    /\ status = "recipients"
    /\ rcpIdx <= Len(event[recIdx].recipients)
    /\ LET recipientLower == ToLowerCase(event[recIdx].recipients[rcpIdx])
           destination == Lookup(FORWARD_MAPPING, recipientLower)
       IN  Falsy(destination)
    /\ rcpIdx' = rcpIdx + 1
    /\ UNCHANGED <<rules, FORWARD_MAPPING, event, recIdx, rawEmail, ops, status, DOMAIN_ENV>>

\* the sending iteration with the recipient as received for Source
ForwardRecipient_SourceAsReceived ==
    /\ status = "recipients"
    /\ rcpIdx <= Len(event[recIdx].recipients)
    /\ LET recipientLower == ToLowerCase(event[recIdx].recipients[rcpIdx])
           destination == Lookup(FORWARD_MAPPING, recipientLower)
           rewritten == rewriteEmail(rawEmail, recipientLower, DOMAIN_ENV)
       IN  /\ ~Falsy(destination)
           /\ \E ok \in BOOLEAN :
                /\ ops' = Append(ops, SendOp(event[recIdx].recipients[rcpIdx], destination,
                                             BufferFrom(rewritten), ok))
                /\ IF ok THEN rcpIdx' = rcpIdx + 1 /\ status' = status
                   ELSE status' = "failed" /\ rcpIdx' = rcpIdx
    /\ UNCHANGED <<rules, FORWARD_MAPPING, event, recIdx, rawEmail, DOMAIN_ENV>>

\* the sending iteration catching a failed send and going on
ForwardRecipient_CatchesFailure ==
    /\ status = "recipients"
    /\ rcpIdx <= Len(event[recIdx].recipients)
    /\ LET recipientLower == ToLowerCase(event[recIdx].recipients[rcpIdx])
           destination == Lookup(FORWARD_MAPPING, recipientLower)
           rewritten == rewriteEmail(rawEmail, recipientLower, DOMAIN_ENV)
       IN  /\ ~Falsy(destination)
           /\ \E ok \in BOOLEAN :
                /\ ops' = Append(ops, SendOp(recipientLower, destination, BufferFrom(rewritten), ok))
                /\ rcpIdx' = rcpIdx + 1
                /\ status' = status
    /\ UNCHANGED <<rules, FORWARD_MAPPING, event, recIdx, rawEmail, DOMAIN_ENV>>

\* one iteration of the recipients loop that rewrites and sends
ForwardRecipient ==
    /\ status = "recipients"
    /\ rcpIdx <= Len(event[recIdx].recipients)
    /\ LET recipientLower == ToLowerCase(event[recIdx].recipients[rcpIdx])
           destination == Lookup(FORWARD_MAPPING, recipientLower)
           rewritten == rewriteEmail(rawEmail, recipientLower, DOMAIN_ENV)
       IN  /\ ~Falsy(destination)
           /\ \E ok \in BOOLEAN :
                /\ ops' = Append(ops, SendOp(recipientLower, destination, BufferFrom(rewritten), ok))
                /\ IF ok THEN rcpIdx' = rcpIdx + 1 /\ status' = status
                   ELSE status' = "failed" /\ rcpIdx' = rcpIdx
    /\ UNCHANGED <<rules, FORWARD_MAPPING, event, recIdx, rawEmail, DOMAIN_ENV>>

\* the recipients loop ends: next record
EndRecord ==
    /\ status = "recipients"
    /\ rcpIdx > Len(event[recIdx].recipients)
    /\ recIdx' = recIdx + 1
    /\ status' = "fetch"
    /\ UNCHANGED <<rules, FORWARD_MAPPING, event, rcpIdx, rawEmail, ops, DOMAIN_ENV>>

\* the records loop ends: the handler returns
Return ==
    /\ status = "fetch"
    /\ recIdx > Len(event)
    /\ status' = "done"
    /\ UNCHANGED <<rules, FORWARD_MAPPING, event, recIdx, rcpIdx, rawEmail, ops, DOMAIN_ENV>>

(***************************************************************************)
(* Configurations and events.                                              *)
(***************************************************************************)
Rule(from, to) == [from |-> from, to |-> to]

RuleConfigs ==
    { <<Rule("hello@d.com", "you@g.com"), Rule("info@d.com", "team@c.com")>>,
      <<Rule("Hello@D.com", "you@g.com")>>,
      <<Rule("hello@d.com", "you@g.com"), Rule("hello@d.com", "team@c.com")>> }

RecipientSet == {"HELLO@D.COM", "info@d.com"}

RecipientLists == UNION {[1..n -> RecipientSet] : n \in 0..MaxRecipients}

EventsOfLen(n) ==
    {[k \in 1..n |-> [messageId |-> MessageIdOf(k), recipients |-> rl[k]]] :
        rl \in [1..n -> RecipientLists]}

EventSet == UNION {EventsOfLen(n) : n \in 1..MaxRecords}

IdleRewriter ==
    /\ raw = <<>>
    /\ forwardFrom = ""
    /\ out = <<>>
    /\ pc = "idle"

InitDispatcher ==
    /\ rules \in RuleConfigs
    /\ FORWARD_MAPPING = BuildForwardMapping(rules, <<>>)
    /\ event \in EventSet
    /\ recIdx = 1
    /\ rcpIdx = 1
    /\ rawEmail = <<>>
    /\ ops = <<>>
    /\ status = "fetch"
    /\ DOMAIN_ENV = "d.com"

(***************************************************************************)
(* The SMTP credentials custom resource (smtp-credentials.ts).  A Buffer is *)
(* a sequence of segments, a segment being a run of bytes of a known       *)
(* length whose content is a term: a literal byte, or the digest of a key  *)
(* and data.  The secret store holds, per name, a secret string or         *)
(* nothing.  A call to the store fails with ResourceNotFoundException when *)
(* the secret is absent, and with another error when the fault injected    *)
(* into the request names that call.                                       *)
(***************************************************************************)
\* the size in bytes of a SHA-256 digest
DigestLength == 32

Segment(content, length) == [content |-> content, length |-> length]

RECURSIVE ByteLength(_)
ByteLength(buffer) ==
    IF buffer = <<>> THEN 0 ELSE Head(buffer).length + ByteLength(Tail(buffer))

\* Buffer.concat(list)
RECURSIVE BufferConcat(_)
BufferConcat(list) ==
    IF list = <<>> THEN <<>> ELSE Head(list) \o BufferConcat(Tail(list))

\* buffer.toString('base64'): four characters for every three bytes, the last
\* group padded with "=" to four characters
ToBase64(buffer) ==
    LET n == ByteLength(buffer)
    IN  [encoding |-> "base64", bytes |-> buffer,
         chars |-> 4 * ((n + 2) \div 3), padding |-> (3 - (n % 3)) % 3]

\* createHmac('sha256', key).update(data).digest()
HmacSha256(key, data) == <<Segment(<<"hmac-sha256", key, data>>, DigestLength)>>

\* Buffer.from([0x04])
VERSION == <<Segment(<<"0x04">>, 1)>>
MESSAGE == "SendRawEmail"

\* the derivation without the version byte
calculateSmtpPassword_NoVersion(secretKey, region) ==
    LET kDate == HmacSha256(<<"AWS4", secretKey>>, "11111111")
        kRegion == HmacSha256(kDate, region)
        kService == HmacSha256(kRegion, "ses")
        kTerminal == HmacSha256(kService, "aws4_request")
        kMessage == HmacSha256(kTerminal, MESSAGE)
    IN  ToBase64(kMessage)

calculateSmtpPassword(secretKey, region) ==
    LET kDate == HmacSha256(<<"AWS4", secretKey>>, "11111111")
        kRegion == HmacSha256(kDate, region)
        kService == HmacSha256(kRegion, "ses")
        kTerminal == HmacSha256(kService, "aws4_request")
        kMessage == HmacSha256(kTerminal, MESSAGE)
    IN  ToBase64(BufferConcat(<<VERSION, kMessage>>))

Regions == {"us-east-1", "us-west-2", "eu-west-1"}
DeriverKeys == {"key1", "key2"}

InitDeriver == derived = <<>>

\* one call of calculateSmtpPassword, the calls being recorded in order
Derive ==
    /\ Len(derived) < MaxDerivations
    /\ \E k \in DeriverKeys, r \in Regions :
         derived' = Append(derived, [secretKey |-> k, region |-> r,
                                     password |-> calculateSmtpPassword(k, r)])

NOT_FOUND == "ResourceNotFoundException"
OTHER_ERROR == "OtherError"

\* the store is a function from the names of the present secrets to their strings
Present(store, name) == name \in DOMAIN store

Without(store, name) == [k \in (DOMAIN store) \ {name} |-> store[k]]

With(store, name, value) ==
    [k \in (DOMAIN store) \cup {name} |-> IF k = name THEN value ELSE store[k]]

\* sm.send(new DeleteSecretCommand({SecretId, ForceDeleteWithoutRecovery: true}))
DeleteSecret(store, name, fault) ==
    IF fault = "DeleteSecret" THEN [store |-> store, error |-> OTHER_ERROR]
    ELSE IF ~Present(store, name) THEN [store |-> store, error |-> NOT_FOUND]
    ELSE [store |-> Without(store, name), error |-> "none"]

\* sm.send(new PutSecretValueCommand({SecretId, SecretString}))
PutSecretValue(store, name, value, fault) ==
    IF fault = "PutSecretValue" THEN [store |-> store, error |-> OTHER_ERROR]
    ELSE IF ~Present(store, name) THEN [store |-> store, error |-> NOT_FOUND]
    ELSE [store |-> With(store, name, value), error |-> "none"]

\* sm.send(new CreateSecretCommand({Name, SecretString, Description}))
CreateSecret(store, name, value, fault) ==
    IF fault = "CreateSecret" \/ Present(store, name)
    THEN [store |-> store, error |-> OTHER_ERROR]
    ELSE [store |-> With(store, name, value), error |-> "none"]

\* JSON.stringify({smtpEndpoint, smtpPort, smtpUsername, smtpPassword})
SecretValueOf(props) ==
    [smtpEndpoint |-> props.SmtpEndpoint,
     smtpPort |-> props.SmtpPort,
     smtpUsername |-> props.AccessKeyId,
     smtpPassword |-> calculateSmtpPassword(props.SecretAccessKey, props.Region)]

\* `smtp-creds-${SecretName}`
PhysicalIdOf(props) == <<"smtp-creds-", props.SecretName>>

\* the commands sent to the store
DeleteSecretCommand(name) ==
    [api |-> "DeleteSecret", SecretId |-> name, ForceDeleteWithoutRecovery |-> TRUE]

PutSecretValueCommand(name, value) ==
    [api |-> "PutSecretValue", SecretId |-> name, SecretString |-> value]

CreateSecretCommand(name, value) ==
    [api |-> "CreateSecret", Name |-> name, SecretString |-> value]

Outcome(store, calls, raised) == [store |-> store, calls |-> calls, raised |-> raised]

\* the Delete branch rethrowing every error of the store
HandleDelete_Rethrows(store, props, fault) ==
    LET d == DeleteSecret(store, props.SecretName, fault)
    IN  Outcome(d.store, <<DeleteSecretCommand(props.SecretName)>>, d.error # "none")

\* the Delete branch of the handler
HandleDelete(store, props, fault) ==
    LET d == DeleteSecret(store, props.SecretName, fault)
    IN  Outcome(d.store, <<DeleteSecretCommand(props.SecretName)>>,
                d.error \notin {"none", NOT_FOUND})

\* the Create or Update branch creating the secret after any failure of the put
HandleCreateOrUpdate_CreateOnAnyError(store, props, fault) ==
    LET secretValue == SecretValueOf(props)
        put == PutSecretValueCommand(props.SecretName, secretValue)
        create == CreateSecretCommand(props.SecretName, secretValue)
        p == PutSecretValue(store, props.SecretName, secretValue, fault)
        c == CreateSecret(p.store, props.SecretName, secretValue, fault)
    IN  IF p.error = "none" THEN Outcome(p.store, <<put>>, FALSE)
        ELSE Outcome(c.store, <<put, create>>, c.error # "none")

\* the Create or Update branch of the handler
HandleCreateOrUpdate(store, props, fault) ==
    LET secretValue == SecretValueOf(props)
        put == PutSecretValueCommand(props.SecretName, secretValue)
        create == CreateSecretCommand(props.SecretName, secretValue)
        p == PutSecretValue(store, props.SecretName, secretValue, fault)
        c == CreateSecret(p.store, props.SecretName, secretValue, fault)
    IN  IF p.error = "none" THEN Outcome(p.store, <<put>>, FALSE)
        ELSE IF p.error = NOT_FOUND
             THEN Outcome(c.store, <<put, create>>, c.error # "none")
        ELSE Outcome(p.store, <<put>>, TRUE)

\* handler(event) of smtp-credentials.ts on a store, with the fault injected
SmHandler(store, request, fault) ==
    IF request.RequestType = "Delete"
    THEN HandleDelete(store, request.ResourceProperties, fault)
    ELSE HandleCreateOrUpdate(store, request.ResourceProperties, fault)

SecretNames == {"EmailForwarding/smtp-credentials", "Other/smtp-credentials"}
SecretKeys == {"key1", "key2"}
Faults == {"none", "DeleteSecret", "PutSecretValue", "CreateSecret"}

PropsOf(name, key) ==
    [SecretName |-> name, AccessKeyId |-> "AKIA1", SecretAccessKey |-> key,
     Region |-> "us-east-1", SmtpEndpoint |-> "email-smtp.us-east-1.amazonaws.com",
     SmtpPort |-> "587"]

Request(type, name, key) == [RequestType |-> type, ResourceProperties |-> PropsOf(name, key)]

SecretValues == {SecretValueOf(PropsOf(n, k)) : n \in SecretNames, k \in SecretKeys}

InitSecrets ==
    /\ secrets \in UNION {[ns -> SecretValues] : ns \in SUBSET SecretNames}
    /\ smHistory = <<>>
    /\ smCalls = <<>>
    /\ smResult = "none"

\* the secret keys of the requests of a type: a Delete does not read its key
KeysOf(type) == IF type = "Delete" THEN {"key1"} ELSE SecretKeys

\* one invocation of the handler, requests being served one at a time
Invoke(type, fault) ==
    /\ Len(smHistory) < MaxRequests
    /\ \E n \in SecretNames, k \in KeysOf(type) :
         LET request == Request(type, n, k)
             o == SmHandler(secrets, request, fault)
         IN  /\ secrets' = o.store
             /\ smCalls' = o.calls
             /\ smResult' = IF o.raised THEN "raised" ELSE PhysicalIdOf(request.ResourceProperties)
             /\ smHistory' = Append(smHistory,
                                [request |-> request, fault |-> fault, before |-> secrets,
                                 raised |-> o.raised])

InvokeCreate == \E fault \in Faults \ {"DeleteSecret"} : Invoke("Create", fault)
InvokeUpdate == \E fault \in Faults \ {"DeleteSecret"} : Invoke("Update", fault)
InvokeDelete == \E fault \in {"none", "DeleteSecret"} : Invoke("Delete", fault)

(***************************************************************************)
(* Specifications: the rewriter applied to one message, and one invocation *)
(* of the forwarding handler.                                              *)
(***************************************************************************)
IdleDispatcher ==
    /\ rules = <<>>
    /\ FORWARD_MAPPING = <<>>
    /\ event = <<>>
    /\ recIdx = 0
    /\ rcpIdx = 0
    /\ rawEmail = <<>>
    /\ ops = <<>>
    /\ status = "idle"

IdleSecrets ==
    /\ secrets = <<>>
    /\ smHistory = <<>>
    /\ smCalls = <<>>
    /\ smResult = "none"

IdleDeriver == derived = <<>>

Init ==
    /\ InitRewriter
    /\ IdleDispatcher
    /\ IdleSecrets
    /\ IdleDeriver

Next == Rewrite /\ UNCHANGED <<dispatcherVars, secretVars, deriverVars>>

Spec == Init /\ [][Next]_vars

DispatcherInit ==
    /\ IdleRewriter
    /\ InitDispatcher
    /\ IdleSecrets
    /\ IdleDeriver

DispatcherNext ==
    \/ FetchRecord /\ UNCHANGED <<rewriterVars, secretVars, deriverVars>>
    \/ SkipRecipient /\ UNCHANGED <<rewriterVars, secretVars, deriverVars>>
    \/ ForwardRecipient /\ UNCHANGED <<rewriterVars, secretVars, deriverVars>>
    \/ EndRecord /\ UNCHANGED <<rewriterVars, secretVars, deriverVars>>
    \/ Return /\ UNCHANGED <<rewriterVars, secretVars, deriverVars>>

DispatcherSpec == DispatcherInit /\ [][DispatcherNext]_vars

SecretsInit ==
    /\ IdleRewriter
    /\ DOMAIN_ENV = "d.com"
    /\ IdleDispatcher
    /\ InitSecrets
    /\ IdleDeriver

SecretsNext ==
    \/ InvokeCreate /\ UNCHANGED <<rewriterVars, DOMAIN_ENV, dispatcherVars, deriverVars>>
    \/ InvokeUpdate /\ UNCHANGED <<rewriterVars, DOMAIN_ENV, dispatcherVars, deriverVars>>
    \/ InvokeDelete /\ UNCHANGED <<rewriterVars, DOMAIN_ENV, dispatcherVars, deriverVars>>

SecretsSpec == SecretsInit /\ [][SecretsNext]_vars

DeriverInit ==
    /\ IdleRewriter
    /\ DOMAIN_ENV = "d.com"
    /\ IdleDispatcher
    /\ IdleSecrets
    /\ InitDeriver

DeriverNext == Derive /\ UNCHANGED <<rewriterVars, DOMAIN_ENV, dispatcherVars, secretVars>>

DeriverSpec == DeriverInit /\ [][DeriverNext]_vars

(***************************************************************************)
(* Vocabulary of the rewriter's properties.  A header line is named by its *)
(* field name up to the colon, whatever follows the colon; a continuation  *)
(* line begins with white space.                                           *)
(***************************************************************************)
ContainsSeq(s, pat) == \E i \in 1..(Len(s) - Len(pat) + 1) : SubSeq(s, i, i + Len(pat) - 1) = pat

HasBoundary(m) == ContainsSeq(m, CRLF \o CRLF) \/ ContainsSeq(m, LFOnly \o LFOnly)

\* the line break of a message: CR LF when it has CR LF CR LF, else LF
BreakOf(m) == IF ContainsSeq(m, CRLF \o CRLF) THEN CRLF ELSE LFOnly

\* 1-based position of the first token of the header/body separator
BoundaryAt(m) ==
    LET sep == BreakOf(m) \o BreakOf(m)
    IN  MinOf({i \in 1..(Len(m) - Len(sep) + 1) : SubSeq(m, i, i + Len(sep) - 1) = sep})

HeaderSectionOf(m) == SubSeq(m, 1, BoundaryAt(m) - 1)

\* the separator and the body
TailOf(m) == SubSeq(m, BoundaryAt(m), Len(m))

\* the body: what follows the separator
BodyOf(m) == SubSeq(m, BoundaryAt(m) + 2 * Len(BreakOf(m)), Len(m))

HeaderLinesOf(m) == Split(HeaderSectionOf(m), BreakOf(m))

NamedHeader(line, name) == line # <<>> /\ ToLowerCase(line[1]) = name

IsContinuation(line) == line # <<>> /\ line[1] \in {"SP", "TAB"}

\* line k of ls is a header of that name or one of the continuation lines that
\* immediately follow it
InHeaderGroup(ls, k, name) ==
    \/ NamedHeader(ls[k], name)
    \/ /\ IsContinuation(ls[k])
       /\ \E h \in 1..(k - 1) : /\ NamedHeader(ls[h], name)
                                /\ \A j \in (h + 1)..k : IsContinuation(ls[j])

CountLines(ls, t) == Cardinality({k \in 1..Len(ls) : ls[k] = t})

RECURSIVE IsSubsequence(_, _)
IsSubsequence(a, b) ==
    IF a = <<>> THEN TRUE
    ELSE IF b = <<>> THEN FALSE
    ELSE IF a[1] = b[1] THEN IsSubsequence(Tail(a), Tail(b))
    ELSE IsSubsequence(a, Tail(b))

Rewritten == pc = "done" /\ HasBoundary(raw)

InLines == HeaderLinesOf(raw)

\* the header lines of the output: what precedes the input's separator and body
OutLines == Split(SubSeq(out, 1, Len(out) - Len(TailOf(raw))), BreakOf(raw))


(***************************************************************************)
(* C1: the output of rewriteEmail has no DKIM-Signature header line, none  *)
(* of the continuation lines that immediately followed a DKIM-Signature    *)
(* header in the input (it has no more copies of a continuation line than  *)
(* the input has outside its DKIM-Signature headers), and no Return-Path   *)
(* header line.                                                            *)
(***************************************************************************)
C1_DkimAndReturnPathAbsent ==
    Rewritten =>
      /\ \A k \in 1..Len(OutLines) :
            /\ ~NamedHeader(OutLines[k], "dkim-signature:")
            /\ ~NamedHeader(OutLines[k], "return-path:")
      /\ \A k \in 1..Len(InLines) :
            IsContinuation(InLines[k]) =>
              CountLines(OutLines, InLines[k]) <=
                Cardinality({j \in 1..Len(InLines) :
                               /\ InLines[j] = InLines[k]
                               /\ ~InHeaderGroup(InLines, j, "dkim-signature:")})

(***************************************************************************)
(* C2 as stated: the part of the output after the output's header/body     *)
(* boundary (first CR LF CR LF, else first LF LF) equals the part of the   *)
(* input after the input's boundary.                                       *)
(***************************************************************************)
C2_BodyAfterBoundarySame ==
    Rewritten => HasBoundary(out) /\ BodyOf(out) = BodyOf(raw)

\* some header line ends with a CR
HasCrEndedLine(m) == \E k \in 1..Len(HeaderLinesOf(m)) :
                        LET l == HeaderLinesOf(m)[k] IN l # <<>> /\ l[Len(l)] = "CR"

(***************************************************************************)
(* C2 amended: the output ends with the input's separator and body, token  *)
(* for token, whatever forwardFrom and DOMAIN are; the body found by       *)
(* splitting the output again is the input's body when the boundary is     *)
(* CR LF CR LF or no header line ends with a CR.                           *)
(***************************************************************************)
C2_TailPreserved ==
    Rewritten =>
      /\ Len(out) >= Len(TailOf(raw))
      /\ SubSeq(out, Len(out) - Len(TailOf(raw)) + 1, Len(out)) = TailOf(raw)
      /\ (BreakOf(raw) = CRLF \/ ~HasCrEndedLine(raw)) =>
            HasBoundary(out) /\ BodyOf(out) = BodyOf(raw)

\* a message whose header lines were rewritten and whose body holds text that
\* looks like a header and a separator
C2_Witness ==
    /\ Rewritten
    /\ \E k \in 1..Len(InLines) : MatchHeader(InLines[k], "from:")
    /\ out # raw
    /\ ContainsSeq(BodyOf(raw), <<"From:", "SP">>)
    /\ BodyOf(out) = BodyOf(raw)

(***************************************************************************)
(* C5: a message with neither CR LF CR LF nor LF LF is returned unchanged, *)
(* whatever forwardFrom and DOMAIN are.                                    *)
(***************************************************************************)
C5_PassThrough == (pc = "done" /\ ~HasBoundary(raw)) => out = raw

\* a message without boundary that begins with a From header was passed through
C5_Witness ==
    /\ pc = "done"
    /\ ~HasBoundary(raw)
    /\ Len(raw) > 4
    /\ MatchHeader(raw, "from:")
    /\ out = raw


(***************************************************************************)
(* C3: each From header line of the input is replaced in place by the      *)
(* synthesized From header parsed from the value of the first From header  *)
(* of the input, followed, if and only if the input has no Reply-To header *)
(* and originalEmail is non-empty, by a Reply-To header carrying the       *)
(* original From value.  Stated on the From and Reply-To lines of the      *)
(* header section, in their order.                                         *)
(***************************************************************************)
FromAndReplyTo(ls) ==
    SelectSeq(ls, LAMBDA l : NamedHeader(l, "from:") \/ NamedHeader(l, "reply-to:"))

FirstFromValue(ls) ==
    LET at == {k \in 1..Len(ls) : NamedHeader(ls[k], "from:")}
    IN  IF at = {} THEN <<>> ELSE Trim(StripFromPrefix(ls[MinOf(at)]))

RECURSIVE ExpectedFromReplyTo(_, _, _)
ExpectedFromReplyTo(ls, value, hasReplyTo) ==
    IF ls = <<>> THEN <<>>
    ELSE (IF NamedHeader(ls[1], "from:")
          THEN <<SynthFrom(extractName(value), extractEmail(value), DOMAIN_ENV, forwardFrom)>>
                 \o (IF ~hasReplyTo /\ extractEmail(value) # <<>>
                     THEN <<SynthReplyTo(value)>> ELSE <<>>)
          ELSE <<ls[1]>>)
         \o ExpectedFromReplyTo(Tail(ls), value, hasReplyTo)

C3_FromSynthesizedFromFirst ==
    Rewritten =>
      FromAndReplyTo(OutLines) =
        ExpectedFromReplyTo(FromAndReplyTo(InLines), FirstFromValue(InLines),
                            \E k \in 1..Len(InLines) : NamedHeader(InLines[k], "reply-to:"))

(***************************************************************************)
(* C4: when the header section of the input has a Reply-To header (here:   *)
(* exactly one), the output has exactly one Reply-To header, the input's,  *)
(* and no synthesized one.                                                 *)
(***************************************************************************)
ReplyToLines(ls) == SelectSeq(ls, LAMBDA l : NamedHeader(l, "reply-to:"))

C4_ReplyToKeptAlone ==
    (Rewritten /\ Len(ReplyToLines(InLines)) = 1) =>
        ReplyToLines(OutLines) = ReplyToLines(InLines)

(***************************************************************************)
(* C10: every header line that is not in a DKIM-Signature header, a From   *)
(* header or a Return-Path header appears in the output unchanged and in   *)
(* the input's order; with no From header in the input, nothing is         *)
(* synthesized and the output is the input without its DKIM-Signature      *)
(* headers (continuation lines included) and Return-Path headers.          *)
(***************************************************************************)
RECURSIVE OtherLinesFrom(_, _)
\* the lines k.. of ls outside DKIM-Signature headers, From and Return-Path lines
OtherLinesFrom(ls, k) ==
    IF k > Len(ls) THEN <<>>
    ELSE (IF \/ InHeaderGroup(ls, k, "dkim-signature:")
             \/ NamedHeader(ls[k], "from:")
             \/ NamedHeader(ls[k], "return-path:")
          THEN <<>> ELSE <<ls[k]>>)
         \o OtherLinesFrom(ls, k + 1)

C10_OtherHeadersUntouched ==
    Rewritten =>
      /\ IsSubsequence(OtherLinesFrom(InLines, 1), OutLines)
      /\ (\A k \in 1..Len(InLines) : ~NamedHeader(InLines[k], "from:")) =>
            out = Join(OtherLinesFrom(InLines, 1), BreakOf(raw)) \o TailOf(raw)


(***************************************************************************)
(* C6: in a run of the handler in which no fetch and no send fails, the    *)
(* calls are, record by record in event order, one GetObject keyed by the  *)
(* record's message id, then one SendRawEmail per recipient whose          *)
(* lower-cased address has a mapping entry, in recipient order, with       *)
(* source the lower-cased recipient, destinations the mapped destination   *)
(* alone and data the rewrite of the fetched bytes; recipients without     *)
(* entry cause no call.                                                    *)
(***************************************************************************)
RECURSIVE ExpectedSends(_, _)
ExpectedSends(messageId, recipients) ==
    IF recipients = <<>> THEN <<>>
    ELSE LET lower == ToLowerCase(recipients[1])
         IN  (IF lower \in DOMAIN FORWARD_MAPPING
              THEN <<SendOp(lower, FORWARD_MAPPING[lower],
                            BufferFrom(rewriteEmail(transformToString(StoredObject(messageId)),
                                                    lower, DOMAIN_ENV)),
                            TRUE)>>
              ELSE <<>>)
             \o ExpectedSends(messageId, Tail(recipients))

RECURSIVE ExpectedOps(_)
ExpectedOps(ev) ==
    IF ev = <<>> THEN <<>>
    ELSE <<GetOp(KeyOf(ev[1].messageId), TRUE)>>
           \o ExpectedSends(ev[1].messageId, ev[1].recipients)
           \o ExpectedOps(Tail(ev))

IsPrefix(a, b) == Len(a) <= Len(b) /\ SubSeq(b, 1, Len(a)) = a

AllOk == \A k \in 1..Len(ops) : ops[k].ok

C6_WitnessNoSend ==
    /\ status = "done"
    /\ \E k \in 1..Len(event) : event[k].recipients # <<>>
    /\ \A k \in 1..Len(ops) : ops[k].op = "GetObject"

(***************************************************************************)
(* C8: a failed fetch or send is not caught: the invocation ends in        *)
(* failure at that call, which is the last call of the invocation.         *)
(***************************************************************************)
C8_FailurePropagates ==
    /\ \A k \in 1..Len(ops) : ~ops[k].ok => k = Len(ops)
    /\ (ops # <<>> /\ ~ops[Len(ops)].ok) <=> status = "failed"
    /\ status = "failed" => ~ENABLED DispatcherNext

\* a send failed while a later recipient with a mapping entry and a later record
\* were still to be handled
C8_Witness ==
    /\ status = "failed"
    /\ ops[Len(ops)].op = "SendRawEmail"
    /\ recIdx < Len(event)
    /\ rcpIdx < Len(event[recIdx].recipients)
    /\ ~Falsy(Resolve(FORWARD_MAPPING, event[recIdx].recipients[rcpIdx + 1]))

(***************************************************************************)
(* C9: for every configured rule (from, to), the rules having distinct     *)
(* from addresses, every recipient equal to from ignoring letter case      *)
(* resolves to to; recipients that differ only in letter case resolve to   *)
(* the same result.                                                        *)
(***************************************************************************)
RecipientStrings == {"hello@d.com", "Hello@D.com", "HELLO@D.COM", "info@d.com", "Info@D.com"}

DistinctFroms ==
    \A i, j \in 1..Len(rules) :
        ToLowerCase(rules[i].from) = ToLowerCase(rules[j].from) => i = j

C9_CaseInsensitiveMatch ==
    (status # "idle" /\ DistinctFroms) =>
      /\ \A k \in 1..Len(rules) : \A r \in RecipientStrings :
            ToLowerCase(r) = ToLowerCase(rules[k].from) =>
                Resolve(FORWARD_MAPPING, r) = rules[k].to
      /\ \A r1, r2 \in RecipientStrings :
            ToLowerCase(r1) = ToLowerCase(r2) =>
                Resolve(FORWARD_MAPPING, r1) = Resolve(FORWARD_MAPPING, r2)

(***************************************************************************)
(* C7: with requests served one at a time by a store that fails only with  *)
(* not-found, from any store state Create then Create with the same name   *)
(* and value ends in the same store state as Create then Update, the       *)
(* secret present with that value, and Delete of an absent name returns    *)
(* without raising and leaves the secret absent.                           *)
(***************************************************************************)
Then(o, request) == SmHandler(o.store, request, "none")

Start == Outcome(secrets, <<>>, FALSE)

C7_LifecycleIdempotence ==
    /\ \A n \in SecretNames, k \in SecretKeys :
         LET create == Request("Create", n, k)
             update == Request("Update", n, k)
             cc == Then(Then(Start, create), create)
             cu == Then(Then(Start, create), update)
         IN  /\ cc.store = cu.store
             /\ ~cc.raised /\ ~cu.raised
             /\ Present(cc.store, n)
             /\ cc.store[n] = SecretValueOf(PropsOf(n, k))
    /\ \A i \in 1..Len(smHistory) :
         LET e == smHistory[i]
             n == e.request.ResourceProperties.SecretName
             after == IF i = Len(smHistory) THEN secrets ELSE smHistory[i + 1].before
         IN  /\ (e.request.RequestType = "Delete" /\ e.fault = "none" /\ ~Present(e.before, n))
                  => ~e.raised /\ after = e.before
             /\ (i > 1 /\ e.fault = "none" /\ smHistory[i - 1].fault = "none"
                   /\ smHistory[i - 1].request.RequestType = "Create"
                   /\ e.request.RequestType \in {"Create", "Update"}
                   /\ e.request.ResourceProperties = smHistory[i - 1].request.ResourceProperties)
                  => /\ ~e.raised
                     /\ after = With(smHistory[i - 1].before, n, SecretValueOf(e.request.ResourceProperties))

\* Create was served twice with the same name and value, the secret being absent
\* at first: the first created it, the second only put the value
C7_Witness ==
    /\ Len(smHistory) = 2
    /\ smHistory[1].request.RequestType = "Create"
    /\ smHistory[2].request = smHistory[1].request
    /\ smHistory[1].fault = "none" /\ smHistory[2].fault = "none"
    /\ ~Present(smHistory[1].before, smHistory[1].request.ResourceProperties.SecretName)
    /\ Len(smCalls) = 1
    /\ smCalls[1].api = "PutSecretValue"
    /\ smResult # "raised"

\* a Delete of an absent name returned
C7_WitnessDelete ==
    /\ smHistory # <<>>
    /\ smHistory[Len(smHistory)].request.RequestType = "Delete"
    /\ ~Present(smHistory[Len(smHistory)].before,
                smHistory[Len(smHistory)].request.ResourceProperties.SecretName)
    /\ smResult # "raised"

(***************************************************************************)
(* C11: every password derived from (secretKey, region) is base64 text     *)
(* that decodes to exactly 33 bytes, the byte 0x04 followed by the 32-byte *)
(* digest ending the HMAC-SHA256 chain over "11111111", the region, "ses", *)
(* "aws4_request", "SendRawEmail" that starts from the key "AWS4" +        *)
(* secretKey; and two derivations from the same (secretKey, region) give   *)
(* the same password, whatever was derived in between.                     *)
(***************************************************************************)
RECURSIVE HmacChain(_, _)
HmacChain(key, datas) ==
    IF datas = <<>> THEN key
    ELSE HmacChain(HmacSha256(key, Head(datas)), Tail(datas))

ChainData(region) == <<"11111111", region, "ses", "aws4_request", "SendRawEmail">>

\* the number of bytes that base64 text of that many characters and padding decodes to
Base64DecodedLength(text) == 3 * (text.chars \div 4) - text.padding

C11_DerivedPassword ==
    \A i \in 1..Len(derived) :
        LET d == derived[i]
            bytes == d.password.bytes
        IN  /\ d.password.encoding = "base64"
            /\ d.password.chars % 4 = 0
            /\ Base64DecodedLength(d.password) = 33
            /\ ByteLength(bytes) = 33
            /\ Len(bytes) = 2
            /\ bytes[1] = Segment(<<"0x04">>, 1)
            /\ bytes[2].length = 32
            /\ <<bytes[2]>> = HmacChain(<<"AWS4", d.secretKey>>, ChainData(d.region))
            /\ \A j \in 1..Len(derived) :
                   (derived[j].secretKey = d.secretKey /\ derived[j].region = d.region)
                       => derived[j].password = d.password

\* a password was derived twice from the same key and region, with a derivation
\* from the same key and another region in between
C11_Witness ==
    /\ Len(derived) = 3
    /\ derived[1].secretKey = derived[3].secretKey
    /\ derived[1].region = derived[3].region
    /\ derived[2].secretKey = derived[1].secretKey
    /\ derived[2].region # derived[1].region
    /\ derived[2].password # derived[1].password

(***************************************************************************)
(* C12: of the request served last, a Delete sends exactly one delete and  *)
(* no put or create, and returns with the store unchanged when the secret  *)
(* is not found; a Create or Update whose put finds no secret sends        *)
(* exactly one create, with the name and value of the put; a failure other *)
(* than not-found of the delete, the put or the create is raised to the    *)
(* caller, with no create after the failed put and the store as it was;    *)
(* and nothing is raised otherwise.                                        *)
(***************************************************************************)
LastRequest == smHistory[Len(smHistory)]

Raised == smResult = "raised"

C12_OnlyNotFoundHandled ==
    smHistory # <<>> =>
        LET e == LastRequest
            n == e.request.ResourceProperties.SecretName
            absent == ~Present(e.before, n)
        IN  /\ Raised = e.raised
            /\ Raised => secrets = e.before
            /\ e.request.RequestType = "Delete" =>
                  /\ Len(smCalls) = 1
                  /\ smCalls[1].api = "DeleteSecret"
                  /\ smCalls[1].SecretId = n
                  /\ Raised <=> e.fault = "DeleteSecret"
                  /\ (~Raised /\ absent) => secrets = e.before
            /\ e.request.RequestType \in {"Create", "Update"} =>
                  /\ smCalls[1].api = "PutSecretValue"
                  /\ smCalls[1].SecretId = n
                  /\ \A i \in 2..Len(smCalls) : smCalls[i].api = "CreateSecret"
                  /\ IF e.fault # "PutSecretValue" /\ absent
                     THEN /\ Len(smCalls) = 2
                          /\ smCalls[2].Name = smCalls[1].SecretId
                          /\ smCalls[2].SecretString = smCalls[1].SecretString
                          /\ Raised <=> e.fault = "CreateSecret"
                          /\ ~Raised => secrets = With(e.before, n, smCalls[1].SecretString)
                     ELSE /\ Len(smCalls) = 1
                          /\ Raised <=> e.fault = "PutSecretValue"

\* a put failed with an error other than not-found while the secret was absent:
\* the error was raised after the single put, the secret still absent
C12_Witness ==
    /\ smHistory # <<>>
    /\ LastRequest.request.RequestType \in {"Create", "Update"}
    /\ LastRequest.fault = "PutSecretValue"
    /\ ~Present(LastRequest.before, LastRequest.request.ResourceProperties.SecretName)
    /\ Raised
    /\ Len(smCalls) = 1
    /\ secrets = LastRequest.before

\* a put found no secret and the create that followed failed: the error was raised
C12_WitnessCreateFails ==
    /\ smHistory # <<>>
    /\ LastRequest.request.RequestType \in {"Create", "Update"}
    /\ LastRequest.fault = "CreateSecret"
    /\ Len(smCalls) = 2
    /\ Raised

====
